---- MODULE Spec2Model ----
(***************************************************************************)
(* Model of patent_drawing_generator.py: PatentClaimsParser (component     *)
(* extraction, classification, relationship inference) and                 *)
(* MermaidGenerator (grouping and emission of the diagram lines).          *)
(*                                                                         *)
(* A Python str is a sequence of one-character strings, so that lower(),   *)
(* title(), strip(), "in", and the three regular expressions of the parser *)
(* are computed character by character as the interpreter computes them.   *)
(***************************************************************************)
EXTENDS Integers, Sequences, FiniteSets, TLC

VARIABLES claims_text, components, connections, diagram, type_args, pc

vars == <<claims_text, components, connections, diagram, type_args, pc>>

----------------------------------------------------------------------------
(* Python str primitives                                                   *)

\* a str literal as its sequence of characters
S(s) == [i \in 1..Len(s) |-> SubSeq(s, i, i)]

UpperChars == S("ABCDEFGHIJKLMNOPQRSTUVWXYZ")
LowerChars == S("abcdefghijklmnopqrstuvwxyz")
DigitChars == S("0123456789")

Letters == {UpperChars[i] : i \in 1..26} \cup {LowerChars[i] : i \in 1..26}
Digits  == {DigitChars[i] : i \in 1..10}
\* \s of the re module (the ASCII members that the inputs use)
Spaces  == {" ", "\n", "\t"}
\* \w of the re module
WordChars == Letters \cup Digits \cup {"_"}

ToLower == [c \in Letters |->
              IF \E i \in 1..26 : UpperChars[i] = c
              THEN LowerChars[CHOOSE i \in 1..26 : UpperChars[i] = c] ELSE c]
ToUpper == [c \in Letters |->
              IF \E i \in 1..26 : LowerChars[i] = c
              THEN UpperChars[CHOOSE i \in 1..26 : LowerChars[i] = c] ELSE c]
DigitVal == [c \in Digits |-> (CHOOSE i \in 1..10 : DigitChars[i] = c) - 1]

\* str.lower()
lower(s) == [i \in 1..Len(s) |-> IF s[i] \in Letters THEN ToLower[s[i]] ELSE s[i]]

\* str.title(): a letter is upper-cased after a non-letter, lower-cased after a letter
title(s) ==
  [i \in 1..Len(s) |->
     IF s[i] \notin Letters THEN s[i]
     ELSE IF i = 1 \/ s[i-1] \notin Letters THEN ToUpper[s[i]] ELSE ToLower[s[i]]]

\* str.strip()
strip(s) ==
  LET kept == {i \in 1..Len(s) : s[i] \notin Spaces}
  IN  IF kept = {} THEN <<>>
      ELSE LET a == CHOOSE i \in kept : \A k \in kept : i <= k
               b == CHOOSE i \in kept : \A k \in kept : i >= k
           IN  SubSeq(s, a, b)

\* int(digits) for a str of decimal digits
RECURSIVE int(_)
int(d) == IF d = <<>> THEN 0
          ELSE 10 * int(SubSeq(d, 1, Len(d) - 1)) + DigitVal[d[Len(d)]]

\* str(n) for n >= 0, as f"{n}" formats it
RECURSIVE str(_)
str(n) == IF n < 10 THEN <<DigitChars[n + 1]>>
          ELSE Append(str(n \div 10), DigitChars[(n % 10) + 1])

\* pattern in s (substring test)
contains(s, pattern) ==
  \E i \in 1..(Len(s) - Len(pattern) + 1) : SubSeq(s, i, i + Len(pattern) - 1) = pattern

----------------------------------------------------------------------------
(* class ComponentType(Enum)                                               *)

\* the members as declared: <<name, value>>
ComponentTypeDecl ==
  << <<"PROCESS",    "rectangle">>,
     <<"DATABASE",   "cylinder">>,
     <<"DECISION",   "diamond">>,
     <<"INTERFACE",  "parallelogram">>,
     <<"STORAGE",    "cylinder">>,
     <<"CONTROLLER", "rectangle">>,
     <<"SENSOR",     "parallelogram">>,
     <<"DISPLAY",    "parallelogram">>,
     <<"NETWORK",    "circle">>,
     <<"DOCUMENT",   "document">> >>

TypeNames == {ComponentTypeDecl[i][1] : i \in DOMAIN ComponentTypeDecl}

\* ComponentType.<n>: Enum makes a name whose value was already declared an alias
\* of the first member with that value; a member is identified by its .name
ComponentType(n) ==
  LET k     == CHOOSE i \in DOMAIN ComponentTypeDecl : ComponentTypeDecl[i][1] = n
      first == CHOOSE i \in DOMAIN ComponentTypeDecl :
                 /\ ComponentTypeDecl[i][2] = ComponentTypeDecl[k][2]
                 /\ \A m \in DOMAIN ComponentTypeDecl :
                      ComponentTypeDecl[m][2] = ComponentTypeDecl[k][2] => i <= m
  IN  ComponentTypeDecl[first][1]

----------------------------------------------------------------------------
(* PatentClaimsParser.__init__                                             *)

\* the entries of the component_patterns dict display, in source order
PatternEntries ==
  << <<"PROCESS",    <<S("processing unit"), S("processor"), S("processing system"),
                       S("computing device"), S("processing module")>> >>,
     <<"DATABASE",   <<S("database"), S("data store"), S("storage system"), S("memory"),
                       S("data repository"), S("storage device")>> >>,
     <<"CONTROLLER", <<S("controller"), S("control unit"), S("control system"),
                       S("control module"), S("control device")>> >>,
     <<"INTERFACE",  <<S("interface"), S("user interface"), S("communication interface"),
                       S("network interface"), S("input interface")>> >>,
     <<"SENSOR",     <<S("sensor"), S("detector"), S("monitoring device"),
                       S("measurement device"), S("input device")>> >>,
     <<"DISPLAY",    <<S("display"), S("screen"), S("monitor"), S("output device"),
                       S("visual display"), S("user display")>> >> >>

\* d[key] = value on an insertion-ordered dict held as a sequence of <<key, value>>:
\* an existing key keeps its position and takes the new value
DictSet(d, key, value) ==
  IF \E i \in DOMAIN d : d[i][1] = key
  THEN [i \in DOMAIN d |-> IF d[i][1] = key THEN <<key, value>> ELSE d[i]]
  ELSE Append(d, <<key, value>>)

RECURSIVE DictOf(_, _)
DictOf(entries, n) ==
  IF n = 0 THEN <<>>
  ELSE DictSet(DictOf(entries, n - 1), ComponentType(entries[n][1]), entries[n][2])

\* self.component_patterns: the dict the display evaluates to
component_patterns == DictOf(PatternEntries, Len(PatternEntries))

\* self.relationship_patterns
relationship_patterns ==
  << S("connected to"), S("coupled to"), S("in communication with"),
     S("operatively connected"), S("electrically connected"),
     S("configured to receive"), S("configured to send"),
     S("transmits to"), S("receives from") >>

----------------------------------------------------------------------------
(* PatentClaimsParser._classify_component                                  *)

Min(set) == CHOOSE x \in set : \A y \in set : x <= y

\* any(pattern in name_lower for pattern in patterns)
any_pattern_in(patterns, name_lower) ==
  \E k \in DOMAIN patterns : contains(name_lower, patterns[k])

\* the first key of component_patterns (dict order) one of whose patterns is a
\* substring of the lower-cased name; ComponentType.PROCESS when there is none
classify_component(component_name) ==
  LET name_lower == lower(component_name)
      hits == {i \in DOMAIN component_patterns :
                 any_pattern_in(component_patterns[i][2], name_lower)}
  IN  IF hits = {} THEN ComponentType("PROCESS")
      ELSE component_patterns[Min(hits)][1]

----------------------------------------------------------------------------
(* PatentClaimsParser._extract_components                                  *)

\* [a-zA-Z\s]
NameChars == Letters \cup Spaces

NoMatch == [end |-> 0, group1 |-> <<>>, group2 |-> <<>>]

\* \((\d+)\) at position p: the index of the closing parenthesis, 0 when it does not match
CiteEnd(t, p) ==
  IF p > Len(t) \/ t[p] # "(" THEN 0
  ELSE LET nondigit == {k \in (p + 1)..Len(t) : t[k] \notin Digits}
           q == IF nondigit = {} THEN Len(t) + 1 ELSE Min(nondigit)
       IN  IF q > p + 1 /\ q <= Len(t) /\ t[q] = ")" THEN q ELSE 0

\* r'([a-zA-Z\s]+?)\s*\((\d+)\)' matched at position s: group 1 is the shortest
\* non-empty run of name characters after which only whitespace precedes "(digits)"
component_pattern(t, s) ==
  IF t[s] \notin NameChars THEN NoMatch
  ELSE LET other == {k \in s..Len(t) : t[k] \notin NameChars}
           p == IF other = {} THEN Len(t) + 1 ELSE Min(other)
           e == CiteEnd(t, p)
       IN  IF e = 0 THEN NoMatch
           ELSE LET k == Min({n \in 1..(p - s) :
                                \A m \in (s + n)..(p - 1) : t[m] \in Spaces})
                IN  [end |-> e, group1 |-> SubSeq(t, s, s + k - 1),
                     group2 |-> SubSeq(t, p + 1, e - 1)]

\* re.findall(component_pattern, text): leftmost matches, scanning on after each
RECURSIVE findall_components(_, _)
findall_components(t, pos) ==
  IF pos > Len(t) THEN <<>>
  ELSE LET m == component_pattern(t, pos)
       IN  IF m.end = 0 THEN findall_components(t, pos + 1)
           ELSE <<m>> \o findall_components(t, m.end + 1)

PatentComponent(name, reference_num, component_type) ==
  [name |-> name, reference_num |-> reference_num, component_type |-> component_type]

\* the body of "for match in matches" (lines 141-151)
CitedComponent(match) ==
  LET component_name == strip(match.group1)
      ref_num == int(match.group2)
  IN  PatentComponent(component_name, ref_num, classify_component(component_name))

\* \b at the gap before index i: exactly one side is a word character
WordBoundary(t, i) ==
  (i - 1 >= 1 /\ t[i - 1] \in WordChars) # (i <= Len(t) /\ t[i] \in WordChars)

\* re.findall(rf'\b{pattern}\b', text, re.IGNORECASE): the matched texts, in text order
RECURSIVE findall_keyword(_, _, _)
findall_keyword(t, pattern, pos) ==
  LET n == Len(pattern) IN
  IF pos + n - 1 > Len(t) THEN <<>>
  ELSE IF /\ lower(SubSeq(t, pos, pos + n - 1)) = lower(pattern)
          /\ WordBoundary(t, pos)
          /\ WordBoundary(t, pos + n)
       THEN <<SubSeq(t, pos, pos + n - 1)>> \o findall_keyword(t, pattern, pos + n)
       ELSE findall_keyword(t, pattern, pos + 1)

\* ScanMatch with "reference_counter += 2" moved out of the "if not any(...)" block:
\* a skipped duplicate consumes a reference number
ScanMatch_CountsSkipped(acc, comp_type, match) ==
  IF \E i \in DOMAIN acc.components : lower(acc.components[i].name) = lower(match)
  THEN [acc EXCEPT !.reference_counter = @ + 2]
  ELSE [components |-> Append(acc.components,
                              PatentComponent(title(match), acc.reference_counter, comp_type)),
        reference_counter |-> acc.reference_counter + 2]

\* the body of "for match in matches" of the fallback (lines 158-166);
\* acc holds the components list and reference_counter
ScanMatch(acc, comp_type, match) ==
  IF \E i \in DOMAIN acc.components : lower(acc.components[i].name) = lower(match)
  THEN acc
  ELSE [components |-> Append(acc.components,
                              PatentComponent(title(match), acc.reference_counter, comp_type)),
        reference_counter |-> acc.reference_counter + 2]

RECURSIVE ScanMatches(_, _, _, _)
ScanMatches(acc, comp_type, matches, k) ==
  IF k > Len(matches) THEN acc
  ELSE ScanMatches(ScanMatch(acc, comp_type, matches[k]), comp_type, matches, k + 1)

\* "for pattern in patterns" (line 156)
RECURSIVE ScanPatterns(_, _, _, _, _)
ScanPatterns(acc, t, comp_type, patterns, k) ==
  IF k > Len(patterns) THEN acc
  ELSE ScanPatterns(ScanMatches(acc, comp_type, findall_keyword(t, patterns[k], 1), 1),
                    t, comp_type, patterns, k + 1)

\* "for comp_type, patterns in self.component_patterns.items()" (line 155)
RECURSIVE ScanTypes(_, _, _, _)
ScanTypes(acc, t, d, k) ==
  IF k > Len(d) THEN acc
  ELSE ScanTypes(ScanPatterns(acc, t, d[k][1], d[k][2], 1), t, d, k + 1)

\* reference_counter = 10 (line 135)
FirstReference == 10

extract_components(text) ==
  LET matches == findall_components(text, 1)
      cited == [i \in 1..Len(matches) |-> CitedComponent(matches[i])]
  IN  IF cited # <<>> THEN cited
      ELSE ScanTypes([components |-> <<>>, reference_counter |-> FirstReference],
                     text, component_patterns, 1).components

----------------------------------------------------------------------------
(* PatentClaimsParser._extract_relationships                               *)

\* start indexes at which s occurs in t, ignoring case
Occurrences(t, s) ==
  LET lt == lower(t)
      ls == lower(s)
  IN  {i \in 1..(Len(t) - Len(s) + 1) : SubSeq(lt, i, i + Len(s) - 1) = ls}

\* .*? can span t[a..b]: "." matches every character but the newline
Spannable(t, a, b) == \A k \in a..b : t[k] # "\n"

\* re.search(rf'{name1}.*?{pattern}.*?{name2}', text, re.IGNORECASE) is not None;
\* the names hold letters and whitespace only, which a regex takes literally
search_link(name1, pattern, name2, text) ==
  LET at1 == Occurrences(text, name1)
      atp == Occurrences(text, pattern)
      at2 == Occurrences(text, name2)
  IN  \E b \in atp :
        /\ \E a \in at1 : a + Len(name1) <= b /\ Spannable(text, a + Len(name1), b - 1)
        /\ \E c \in at2 : b + Len(pattern) <= c /\ Spannable(text, b + Len(pattern), c - 1)

NodeId(reference_num) == S("COMP") \o str(reference_num)

PatentConnection(from_component, to_component, label) ==
  [from_component |-> from_component, to_component |-> to_component, label |-> label]

\* PairConnections without the "break": one connection per matching phrase
PairConnections_NoBreak(text, comp1, comp2) ==
  LET found == {k \in DOMAIN relationship_patterns :
                  search_link(comp1.name, relationship_patterns[k], comp2.name, text)}
      RECURSIVE Each(_)
      Each(k) ==
        IF k > Len(relationship_patterns) THEN <<>>
        ELSE (IF k \in found
              THEN <<PatentConnection(NodeId(comp1.reference_num),
                                      NodeId(comp2.reference_num),
                                      title(relationship_patterns[k]))>>
              ELSE <<>>) \o Each(k + 1)
  IN  Each(1)

\* "for pattern in self.relationship_patterns: if re.search(...): append; break"
PairConnections(text, comp1, comp2) ==
  LET found == {k \in DOMAIN relationship_patterns :
                  search_link(comp1.name, relationship_patterns[k], comp2.name, text)}
  IN  IF found = {} THEN <<>>
      ELSE <<PatentConnection(NodeId(comp1.reference_num), NodeId(comp2.reference_num),
                              title(relationship_patterns[Min(found)]))>>

\* the two enumerate loops: i over the list, j over components[i+1:]
RECURSIVE PairLoop(_, _, _, _)
PairLoop(text, comps, i, j) ==
  IF i > Len(comps) THEN <<>>
  ELSE IF j > Len(comps) THEN PairLoop(text, comps, i + 1, i + 2)
  ELSE PairConnections(text, comps[i], comps[j]) \o PairLoop(text, comps, i, j + 1)

extract_relationships(text, comps) == PairLoop(text, comps, 1, 2)

----------------------------------------------------------------------------
(* PatentComponent.to_mermaid_node, PatentConnection.to_mermaid_connection *)

to_mermaid_node(comp) ==
  LET node_id == NodeId(comp.reference_num)
      display_name == comp.name \o S(" ") \o str(comp.reference_num)
      t == comp.component_type
  IN  IF t = ComponentType("DATABASE") \/ t = ComponentType("STORAGE")
        THEN node_id \o S("[(\"") \o display_name \o S("\")]")
      ELSE IF t = ComponentType("DECISION")
        THEN node_id \o S("{") \o display_name \o S("}")
      ELSE IF t = ComponentType("INTERFACE") \/ t = ComponentType("SENSOR")
        THEN node_id \o S("[/") \o display_name \o S("/]")
      ELSE IF t = ComponentType("DISPLAY")
        THEN node_id \o S("[/\"") \o display_name \o S("\"/]")
      ELSE IF t = ComponentType("NETWORK")
        THEN node_id \o S("((") \o display_name \o S("))")
      ELSE IF t = ComponentType("DOCUMENT")
        THEN node_id \o S("[[\"") \o display_name \o S("\"]]")
      ELSE node_id \o S("[") \o display_name \o S("]")

to_mermaid_connection(conn) ==
  LET styled_label ==
        S("<span style=\"font-size:24px;font-weight:bold;background:white;padding:6px\">")
        \o conn.label \o S("</span>")
  IN  conn.from_component \o S(" -.->|\"") \o styled_label \o S("\"| ") \o conn.to_component

----------------------------------------------------------------------------
(* MermaidGenerator                                                        *)

\* self.mermaid_config
mermaid_config ==
  S("%%{init: {\n")
  \o S("  'theme':'base', \n")
  \o S("  'themeVariables': { \n")
  \o S("    'primaryColor': '#ffffff', \n")
  \o S("    'primaryTextColor': '#000000', \n")
  \o S("    'primaryBorderColor': '#000000', \n")
  \o S("    'lineColor': '#000000', \n")
  \o S("    'background': '#ffffff', \n")
  \o S("    'mainBkg': '#ffffff', \n")
  \o S("    'secondBkg': '#ffffff', \n")
  \o S("    'tertiaryBkg': '#ffffff', \n")
  \o S("    'edgeLabelBackground': '#ffffff',\n")
  \o S("    'clusterBkg': 'rgba(0,0,0,0)',\n")
  \o S("    'altBackground': '#ffffff',\n")
  \o S("    'cScale0': '#ffffff', \n")
  \o S("    'cScale1': '#ffffff', \n")
  \o S("    'cScale2': '#ffffff'\n")
  \o S("  }, \n")
  \o S("  'flowchart': {'curve': 'linear'}, \n")
  \o S("  'fontSize': 20\n")
  \o S("}}%%")

\* sep.join(strs), n = len(strs)
RECURSIVE join(_, _, _)
join(sep, strs, n) ==
  IF n = 0 THEN <<>>
  ELSE IF n = 1 THEN strs[1]
  ELSE join(sep, strs, n - 1) \o sep \o strs[n]

\* _group_components_by_type: a dict from type to its components, the types in
\* first-seen order, the components of a type in list order
RECURSIVE group_components_by_type(_, _)
group_components_by_type(comps, n) ==
  IF n = 0 THEN <<>>
  ELSE LET grouped == group_components_by_type(comps, n - 1)
           key == comps[n].component_type
       IN  IF \E i \in DOMAIN grouped : grouped[i][1] = key
           THEN [i \in DOMAIN grouped |->
                   IF grouped[i][1] = key
                   THEN <<key, Append(grouped[i][2], comps[n])>> ELSE grouped[i]]
           ELSE Append(grouped, <<key, <<comps[n]>> >>)

\* str.replace('_', ' ')
replace_underscore(s) == [i \in 1..Len(s) |-> IF s[i] = "_" THEN " " ELSE s[i]]

\* _generate_subgraph; comp_type.name is the name of the member
generate_subgraph(comp_type, comps) ==
  LET subgraph_name == S(comp_type) \o S("_SYS")
      subgraph_title == replace_underscore(S(comp_type)) \o S(" SYSTEM")
  IN  << S("    subgraph ") \o subgraph_name \o S(" [\" \"]"),
         S("        direction TB"),
         S("        ") \o subgraph_name \o S("_TITLE[\"") \o subgraph_title \o S("\"]") >>
      \o [i \in 1..Len(comps) |-> S("        ") \o to_mermaid_node(comps[i])]
      \o (IF comps # <<>>
          THEN << S("        ") \o subgraph_name \o S("_TITLE ~~~ ")
                  \o NodeId(comps[1].reference_num) >>
          ELSE <<>>)
      \o << S("    end"), <<>> >>

\* _generate_styling
generate_styling(comps) ==
  LET comp_ids == [i \in 1..Len(comps) |-> NodeId(comps[i].reference_num)]
      head == << S("    %% USPTO-Compliant Styling"),
                 S("    classDef default fill:#ffffff,stroke:#000000,stroke-width:3px,color:#000000,font-size:20px,font-weight:bold") >>
      styling_lines ==
        IF comp_ids # <<>>
        THEN Append(head, S("    class ") \o join(S(","), comp_ids, Len(comp_ids))
                          \o S(" default"))
        ELSE head
  IN  join(S("\n"), styling_lines, Len(styling_lines))

\* the loop over grouped_components.items() (lines 245-251)
RECURSIVE GroupLines(_, _)
GroupLines(grouped, n) ==
  IF n = 0 THEN <<>>
  ELSE GroupLines(grouped, n - 1)
       \o (IF Len(grouped[n][2]) > 1
           THEN generate_subgraph(grouped[n][1], grouped[n][2])
           ELSE [i \in 1..Len(grouped[n][2]) |->
                   S("    ") \o to_mermaid_node(grouped[n][2][i])])

generate_diagram(comps, conns, title_text) ==
  LET grouped_components == group_components_by_type(comps, Len(comps))
      all_lines ==
        << mermaid_config, <<>>, S("flowchart TB"),
           S("    TITLE[\"") \o title_text \o S("\"]"), <<>> >>
        \o GroupLines(grouped_components, Len(grouped_components))
        \o << <<>> >>
        \o [i \in 1..Len(conns) |-> S("    ") \o to_mermaid_connection(conns[i])]
        \o << <<>>, generate_styling(comps) >>
  IN  join(S("\n"), all_lines, Len(all_lines))

\* title: str = "PATENT SYSTEM DIAGRAM"
DefaultTitle == S("PATENT SYSTEM DIAGRAM")

----------------------------------------------------------------------------
(* Inputs                                                                  *)

\* the longest claims text, in pieces
MaxPieces == 3
\* the longest component list handed to generate_diagram directly
MaxComponents == 4

\* claims with explicit citations "name (number)"
CitePieces ==
  { S("processor (10)"), S(" is connected to "), S("database (12)"),
    S(", database (10)"), S(", sensor (0)"), S(", monitor (x)") }

\* claims without citations: keywords in several spellings
KeywordPieces ==
  { S("Sensor... "), S("sensor... "), S("SENSOR"), S("DISPLAY "), S("display ") }

\* claims without citations: keywords, connector phrases and line breaks
LinkPieces ==
  { S("controller "), S("CONTROLLER "), S("coupled to memory "),
    S("connected to memory "), S("\n") }

\* the texts made of at most n pieces
RECURSIVE TextsOver(_, _)
TextsOver(pieces, n) ==
  IF n = 0 THEN {<<>>}
  ELSE LET shorter == TextsOver(pieces, n - 1)
       IN  shorter \cup {t \o p : t \in shorter, p \in pieces}

Texts == UNION {TextsOver(pieces, MaxPieces) :
                  pieces \in {CitePieces, KeywordPieces, LinkPieces}}

\* the lists of member names of length 1..n
RECURSIVE NameLists(_)
NameLists(n) ==
  IF n = 0 THEN {}
  ELSE NameLists(n - 1) \cup [1..n -> TypeNames]

----------------------------------------------------------------------------
(* PatentDrawingGenerator.process_claims_file                              *)

Init ==
  /\ claims_text \in Texts
  /\ components = <<>>
  /\ connections = <<>>
  /\ diagram = <<>>
  /\ type_args = <<>>
  /\ pc = "start"

\* parse_claims (lines 122-130)
ParseClaims ==
  /\ pc = "start"
  /\ components' = extract_components(claims_text)
  /\ connections' = extract_relationships(claims_text, components')
  /\ pc' = "parsed"
  /\ UNCHANGED <<claims_text, diagram, type_args>>

\* "if not components: return" (lines 329-331)
NoComponents ==
  /\ pc = "parsed"
  /\ components = <<>>
  /\ pc' = "skipped"
  /\ UNCHANGED <<claims_text, components, connections, diagram, type_args>>

\* generate_diagram (lines 226-261)
GenerateDiagram ==
  /\ pc = "parsed"
  /\ components # <<>>
  /\ diagram' = generate_diagram(components, connections, DefaultTitle)
  /\ pc' = "done"
  /\ UNCHANGED <<claims_text, components, connections, type_args>>

Next == ParseClaims \/ NoComponents \/ GenerateDiagram

Spec == Init /\ [][Next]_vars

----------------------------------------------------------------------------
(* MermaidGenerator.generate_diagram called on a list built by the caller: *)
(* component i is PatentComponent("unit", 10 + 2i, ComponentType.<name>)   *)

InitRender ==
  /\ type_args \in NameLists(MaxComponents)
  /\ components = [i \in 1..Len(type_args) |->
                     PatentComponent(S("unit"), FirstReference + 2 * (i - 1),
                                     ComponentType(type_args[i]))]
  /\ connections = <<>>
  /\ claims_text = <<>>
  /\ diagram = <<>>
  /\ pc = "parsed"

NextRender == GenerateDiagram

SpecRender == InitRender /\ [][NextRender]_vars

----------------------------------------------------------------------------
(* Properties                                                              *)

\* parse_claims has returned
Parsed == pc # "start"

\* the explicit-citation strategy found a match, so the fallback did not run
Cited == findall_components(claims_text, 1) # <<>>

\* C1: extract("processor (10) is connected to database (12)") returns the two
\* Components (processor, 10, PROCESS) and (database, 12, DATABASE) and the one
\* Relationship COMP10 -> COMP12 labelled "Connected To".
C1_CitedPairExample ==
  (Parsed /\ claims_text = S("processor (10) is connected to database (12)")) =>
    /\ components = << PatentComponent(S("processor"), 10, ComponentType("PROCESS")),
                       PatentComponent(S("database"), 12, ComponentType("DATABASE")) >>
    /\ connections = << PatentConnection(S("COMP10"), S("COMP12"), S("Connected To")) >>

\* C2: the component list returned by parse_claims holds no two Components with
\* the same reference id.
C2_UniqueReferenceIds ==
  Parsed => \A i, j \in DOMAIN components :
              i # j => components[i].reference_num # components[j].reference_num

\* the category C3 and C4 expect for a fragment: the first of the six declared
\* pattern lists (PROCESS, DATABASE, CONTROLLER, INTERFACE, SENSOR, DISPLAY)
\* with a keyword in the lower-cased fragment, PROCESS when there is none
DeclaredCategory(fragment) ==
  LET hits == {i \in DOMAIN PatternEntries :
                 any_pattern_in(PatternEntries[i][2], lower(fragment))}
  IN  IF hits = {} THEN "PROCESS" ELSE PatternEntries[Min(hits)][1]

\* C3: classify returns the first category in declared order that has a registered
\* keyword in the lower-cased fragment ("sensor" is SENSOR), and PROCESS only when
\* no registered keyword occurs; compared as ComponentType members compare.
C3_ClassifyFirstDeclaredMatch ==
  (Parsed /\ Cited) =>
    \A i \in DOMAIN components :
      components[i].component_type = ComponentType(DeclaredCategory(components[i].name))

\* the six pattern lists as declared, each under the member its name denotes
DeclaredPatterns ==
  [i \in DOMAIN PatternEntries |->
     <<ComponentType(PatternEntries[i][1]), PatternEntries[i][2]>>]

\* name and category of every component, in list order
NamesAndTypes(comps) ==
  [i \in DOMAIN comps |-> <<comps[i].name, comps[i].component_type>>]

\* C4: without citations, the fallback returns one Component for every
\* case-insensitively distinct whole-word occurrence of every keyword of all six
\* declared pattern lists, with the keyword's category, ordered by category
\* declaration order, then pattern order, then position in the text.
C4_ScanCoversAllDeclaredLists ==
  (Parsed /\ ~Cited) =>
    NamesAndTypes(components) =
      NamesAndTypes(ScanTypes([components |-> <<>>, reference_counter |-> FirstReference],
                              claims_text, DeclaredPatterns, 1).components)

\* C5: via the keyword-scan fallback, the k-th discovered Component (k from 0) has
\* reference id 10 + 2k, so the ids are pairwise distinct and start at 10; a
\* skipped duplicate occurrence consumes no id.
C5_FallbackReferenceIds ==
  (Parsed /\ ~Cited) =>
    /\ \A k \in DOMAIN components : components[k].reference_num = 10 + 2 * (k - 1)
    /\ \A i, j \in DOMAIN components :
         i # j => components[i].reference_num # components[j].reference_num

\* a fallback result of two Components, the first of which occurs again in the
\* text (a skipped duplicate) before the second is discovered
C5_Witness ==
  /\ pc = "parsed"
  /\ ~Cited
  /\ Len(components) >= 2
  /\ Cardinality(Occurrences(claims_text, components[1].name)) >= 2
  /\ components[2].reference_num = 12

\* every keyword of the six declared pattern lists
DeclaredKeywords ==
  UNION {{PatternEntries[i][2][k] : k \in DOMAIN PatternEntries[i][2]} :
           i \in DOMAIN PatternEntries}

\* C6: a citation-free text whose only keyword occurrences are case variants of
\* one registered keyword ("Sensor... sensor... SENSOR") yields exactly one
\* Component, named by the display (title-case) form of the first occurrence.
C6_CaseInsensitiveDedup ==
  (Parsed /\ ~Cited) =>
    \A kw \in DeclaredKeywords :
      ( /\ findall_keyword(claims_text, kw, 1) # <<>>
        /\ \A other \in DeclaredKeywords \ {kw} :
             findall_keyword(claims_text, other, 1) = <<>> )
      => /\ Len(components) = 1
         /\ components[1].name = title(findall_keyword(claims_text, kw, 1)[1])

\* the indexes at which a line of the diagram starts (str.split("\n"))
LineStarts(s) == {1} \cup {i + 1 : i \in {k \in 1..Len(s) : s[k] = "\n"}}

\* the number of lines of s that start with prefix
CountLines(s, prefix) ==
  Cardinality({p \in LineStarts(s) : SubSeq(s, p, p + Len(prefix) - 1) = prefix})

\* C7: a component list with three Components of one category name and one of a
\* different name renders as exactly one subgraph block holding exactly the
\* three same-category nodes and exactly one node at top level.
C7_ThreeAndOneGrouping ==
  ( /\ pc = "done"
    /\ Len(type_args) = 4
    /\ \E a, b \in TypeNames :
         /\ a # b
         /\ Cardinality({i \in 1..4 : type_args[i] = a}) = 3
         /\ Cardinality({i \in 1..4 : type_args[i] = b}) = 1 )
  => /\ CountLines(diagram, S("    subgraph ")) = 1
     /\ CountLines(diagram, S("        COMP")) = 3
     /\ CountLines(diagram, S("    COMP")) = 1

\* C8: a citation whose number is not an in-range integer (reference ids are
\* positive integers) is discarded on its own: it yields no Component, while
\* the other matches of the text still do.
C8_MalformedNumberDiscarded ==
  (Parsed /\ Cited) => \A i \in DOMAIN components : components[i].reference_num > 0

\* C9: no Relationship returned by parse_claims is a self-loop.
C9_NoSelfLoop ==
  Parsed => \A k \in DOMAIN connections :
              connections[k].from_component # connections[k].to_component

\* s occurs in t at index x (t and s lower-cased by the caller)
At(t, s, x) == x + Len(s) - 1 <= Len(t) /\ SubSeq(t, x, x + Len(s) - 1) = s

\* the text holds name1, later phrase, later name2, ignoring case; with same_line,
\* no newline between name1 and the phrase nor between the phrase and name2
Follows(text, name1, phrase, name2, same_line) ==
  LET t  == lower(text)
      n1 == lower(name1)
      ph == lower(phrase)
      n2 == lower(name2)
      Free(a, b) == same_line => \A k \in a..b : t[k] # "\n"
  IN  \E x \in 1..(Len(t) + 1) :
        /\ At(t, n1, x)
        /\ \E y \in (x + Len(n1))..(Len(t) + 1) :
             /\ At(t, ph, y)
             /\ Free(x + Len(n1), y - 1)
             /\ \E z \in (y + Len(ph))..(Len(t) + 1) :
                  At(t, n2, z) /\ Free(y + Len(ph), z - 1)

\* the connector phrases that link components i and j
LinkingPhrases(i, j, same_line) ==
  {k \in DOMAIN relationship_patterns :
     Follows(claims_text, components[i].name, relationship_patterns[k],
             components[j].name, same_line)}

\* the index pairs i < j that some connector phrase links
LinkedPairs(same_line) ==
  {p \in (DOMAIN components) \X (DOMAIN components) :
     p[1] < p[2] /\ LinkingPhrases(p[1], p[2], same_line) # {}}

PairBefore(p, q) == p[1] < q[1] \/ (p[1] = q[1] /\ p[2] < q[2])

\* connections holds, in lexicographic (i, j) order, exactly one Relationship
\* i -> j for every linked pair, labelled with the title-cased first linking
\* phrase in library order
OnePerLinkedPair(same_line) ==
  LET linked == LinkedPairs(same_line)
  IN  /\ Len(connections) = Cardinality(linked)
      /\ 2 * Len(connections) <= Len(components) * (Len(components) - 1)
      /\ \A p \in linked :
           connections[Cardinality({q \in linked : PairBefore(q, p)}) + 1] =
             PatentConnection(
               NodeId(components[p[1]].reference_num),
               NodeId(components[p[2]].reference_num),
               title(relationship_patterns[Min(LinkingPhrases(p[1], p[2], same_line))]))

====
